---- MODULE Spec2Model ----
(***************************************************************************)
(* A model of trmnotes (src/src/main.rs): the App aggregate, its control   *)
(* loop (App::run) and its key handler (App::handle_key_event), together   *)
(* with the notes directory the program reads and writes.                  *)
(*                                                                         *)
(* Strings are sequences of one-character strings.  Every character of     *)
(* the model is ASCII, so a character is one byte and String::len, the     *)
(* byte offsets of insert/remove/split_off and the character positions     *)
(* coincide (the character model spec section 9 assumes).  Rust indexes    *)
(* from 0, TLA+ sequences from 1: cursor_x, cursor_y and file_select_index *)
(* keep the program's 0-based values.                                      *)
(***************************************************************************)
EXTENDS Integers, Sequences, FiniteSets, TLC

VARIABLES
    text,               \* Vec<String>: the buffer, one line per element
    files,              \* Vec<String>: the listing of the notes folder
    current_file,       \* Option<String>: <<>> is None, <<name>> is Some(name)
    exit,
    explorer_open,
    help_menu_open,
    note_create_mode,
    new_file_name,
    file_select_mode,
    file_select_index,
    cursor_x,
    cursor_y,
    disk,               \* the notes folder: file name -> file content
    pc,                 \* position of App::run
    nevents,            \* events so far: key events and changes of the folder
    last                \* the key event just handled: the key, the mode that
                        \* handled it and the outcomes it met

appvars == <<text, files, current_file, exit, explorer_open, help_menu_open,
             note_create_mode, new_file_name, file_select_mode,
             file_select_index, cursor_x, cursor_y>>
vars == <<text, files, current_file, exit, explorer_open, help_menu_open,
          note_create_mode, new_file_name, file_select_mode,
          file_select_index, cursor_x, cursor_y, disk, pc, nevents, last>>

(***************************************************************************)
(* Bounds.                                                                 *)
(***************************************************************************)
\* Events (key events and changes of the folder by other programs) in one run
\* of the program.
MaxEvents == 4

(***************************************************************************)
(* Characters, strings and their order.                                    *)
(***************************************************************************)
NL == "\n"
CR == "\r"

\* The byte value of each character the model uses (String's Ord is bytewise).
Code ==
    [c \in {NL, CR, ".", "a", "d", "e", "f", "h", "l", "n", "o", "q", "s", "t",
            "u", "w", "x"} |->
        CASE c = NL -> 10 [] c = CR -> 13 [] c = "." -> 46 [] c = "a" -> 97
          [] c = "d" -> 100 [] c = "e" -> 101 [] c = "f" -> 102 [] c = "h" -> 104
          [] c = "l" -> 108 [] c = "n" -> 110 [] c = "o" -> 111 [] c = "q" -> 113
          [] c = "s" -> 115 [] c = "t" -> 116 [] c = "u" -> 117 [] c = "w" -> 119
          [] c = "x" -> 120]

\* a < b in the order of String (lexicographic on bytes).
RECURSIVE StrLess(_, _)
StrLess(a, b) ==
    IF b = <<>> THEN FALSE
    ELSE IF a = <<>> THEN TRUE
    ELSE IF Code[Head(a)] # Code[Head(b)] THEN Code[Head(a)] < Code[Head(b)]
    ELSE StrLess(Tail(a), Tail(b))

\* Vec::sort of a set of distinct names.
RECURSIVE Sorted(_)
Sorted(S) ==
    IF S = {} THEN <<>>
    ELSE LET m == CHOOSE x \in S : \A y \in S \ {x} : StrLess(x, y)
         IN  <<m>> \o Sorted(S \ {m})

\* String::insert(idx, ch), String::remove(idx), String::split_off(at), idx 0-based.
StrInsert(s, idx, ch) == SubSeq(s, 1, idx) \o <<ch>> \o SubSeq(s, idx + 1, Len(s))
StrRemove(s, idx) == SubSeq(s, 1, idx) \o SubSeq(s, idx + 2, Len(s))
StrTruncate(s, at) == SubSeq(s, 1, at)
StrSplitOff(s, at) == SubSeq(s, at + 1, Len(s))

\* Vec::insert(idx, e) and Vec::remove(idx), idx 0-based.
VecInsert(v, idx, e) == SubSeq(v, 1, idx) \o <<e>> \o SubSeq(v, idx + 1, Len(v))
VecRemove(v, idx) == SubSeq(v, 1, idx) \o SubSeq(v, idx + 2, Len(v))

\* Position of the first "\n" of s, 0 if there is none.
FirstNL(s) ==
    IF \E i \in 1..Len(s) : s[i] = NL
    THEN CHOOSE i \in 1..Len(s) : s[i] = NL /\ \A j \in 1..(i - 1) : s[j] # NL
    ELSE 0

StripCR(l) == IF Len(l) > 0 /\ l[Len(l)] = CR THEN SubSeq(l, 1, Len(l) - 1) ELSE l

\* str::lines: split at "\n", the final line ending is optional, a "\r" right
\* before a "\n" is dropped with it.
RECURSIVE Lines(_)
Lines(content) ==
    IF content = <<>> THEN <<>>
    ELSE LET i == FirstNL(content)
         IN  IF i = 0 THEN <<content>>
             ELSE <<StripCR(SubSeq(content, 1, i - 1))>>
                    \o Lines(SubSeq(content, i + 1, Len(content)))

\* A faulty save_note output that puts "\n" between the lines and none after
\* the last (C16 must reject it).
RECURSIVE WrittenJoined(_)
WrittenJoined(lines) ==
    IF lines = <<>> THEN <<>>
    ELSE IF Len(lines) = 1 THEN Head(lines)
    ELSE Head(lines) \o <<NL>> \o WrittenJoined(Tail(lines))

\* What save_note writes: writeln!(file, "{}", line) for each line.
RECURSIVE Written(_)
Written(lines) ==
    IF lines = <<>> THEN <<>>
    ELSE Head(lines) \o <<NL>> \o Written(Tail(lines))

(***************************************************************************)
(* The App aggregate as a record, so that a handler is a function of it.   *)
(***************************************************************************)
App ==
    [text |-> text, files |-> files, current_file |-> current_file,
     exit |-> exit, explorer_open |-> explorer_open,
     help_menu_open |-> help_menu_open, note_create_mode |-> note_create_mode,
     new_file_name |-> new_file_name, file_select_mode |-> file_select_mode,
     file_select_index |-> file_select_index, cursor_x |-> cursor_x,
     cursor_y |-> cursor_y]

\* "default.txt"
DefaultFile == <<"d", "e", "f", "a", "u", "l", "t", ".", "t", "x", "t">>

\* App::default()
DefaultApp ==
    [text |-> << <<>> >>, files |-> <<>>, current_file |-> <<DefaultFile>>,
     exit |-> FALSE, explorer_open |-> TRUE, help_menu_open |-> FALSE,
     note_create_mode |-> FALSE, new_file_name |-> <<>>,
     file_select_mode |-> FALSE, file_select_index |-> 0,
     cursor_x |-> 0, cursor_y |-> 0]

\* usize::MAX, the value 0usize - 1 wraps to when overflow checks are off.  No
\* index of the model comes near it.
UsizeMax == 2147483647

(***************************************************************************)
(* Key events: KeyEvent.code (with the character of KeyCode::Char) and     *)
(* whether KeyEvent.modifiers contains CONTROL.                            *)
(***************************************************************************)
Special(code) == [code |-> code, ch |-> "", ctrl |-> FALSE]
Char(c) == [code |-> "Char", ch |-> c, ctrl |-> FALSE]
Ctrl(c) == [code |-> "Char", ch |-> c, ctrl |-> TRUE]
NoKey == Special("None")

SpecialCodes == {"Enter", "Backspace", "Esc", "Up", "Down", "Left", "Right"}
Keys ==
    {Special(c) : c \in SpecialCodes}
        \cup {Char("s"), Char("w")}
        \cup {Ctrl(c) : c \in {"s", "e", "q", "n", "o", "h"}}

\* KeyCode::as_char
AsChar(key) == IF key.code = "Char" THEN <<key.ch>> ELSE <<>>
IsCtrl(key, c) == key.code = "Char" /\ key.ch = c /\ key.ctrl

(***************************************************************************)
(* What one handler meets outside the App.  op, write and list are the     *)
(* outcomes of its fallible file-system calls: op is the open (or read) of *)
(* a file, write the write after a successful open, list fs::read_dir; at  *)
(* most one call fails, since the first failure returns.  wrap is the      *)
(* build's treatment of integer overflow: TRUE wraps (overflow checks off, *)
(* the release profile), FALSE panics (the debug profile).                 *)
(***************************************************************************)
AllOk == [op |-> TRUE, write |-> TRUE, list |-> TRUE, wrap |-> FALSE]
FailOp == [op |-> FALSE, write |-> TRUE, list |-> TRUE, wrap |-> FALSE]
FailWrite == [op |-> TRUE, write |-> FALSE, list |-> TRUE, wrap |-> FALSE]
FailList == [op |-> TRUE, write |-> TRUE, list |-> FALSE, wrap |-> FALSE]
Wrapping == [op |-> TRUE, write |-> TRUE, list |-> TRUE, wrap |-> TRUE]

\* The folder d with file name holding content.
WriteFile(d, name, content) ==
    [n \in DOMAIN d \cup {name} |-> IF n = name THEN content ELSE d[n]]
RemoveFile(d, name) == [n \in DOMAIN d \ {name} |-> d[n]]

(***************************************************************************)
(* The store operations of App.  Each yields the new App, the new folder   *)
(* and ok, FALSE when the io::Result is an Err.                            *)
(***************************************************************************)
GetNotes(a, d, io) ==
    IF io.list
    THEN [app |-> [a EXCEPT !.files = Sorted(DOMAIN d)], disk |-> d, ok |-> TRUE]
    ELSE [app |-> [a EXCEPT !.files = <<>>], disk |-> d, ok |-> FALSE]

CreateNote(a, d, file_name, io) ==
    IF file_name \notin DOMAIN d
    THEN IF ~io.op THEN [app |-> a, disk |-> d, ok |-> FALSE]
         ELSE IF ~io.write
              THEN [app |-> a, disk |-> WriteFile(d, file_name, <<>>), ok |-> FALSE]
              ELSE GetNotes(a, WriteFile(d, file_name, <<>>), io)
    ELSE [app |-> a, disk |-> d, ok |-> TRUE]

\* A faulty open_note that leaves the buffer without a line when the file is
\* empty (C2 must reject it).
OpenNoteNoPush(a, d, file_name, io) ==
    IF file_name \in DOMAIN d
    THEN IF ~io.op THEN [app |-> a, disk |-> d, ok |-> FALSE]
         ELSE [app |-> [a EXCEPT !.text = Lines(d[file_name]),
                                 !.cursor_x = 0, !.cursor_y = 0],
               disk |-> d, ok |-> TRUE]
    ELSE [app |-> a, disk |-> d, ok |-> TRUE]

\* A faulty open_note that keeps the cursor where it was (C8 must reject it).
OpenNoteKeepCursor(a, d, file_name, io) ==
    IF file_name \in DOMAIN d
    THEN IF ~io.op THEN [app |-> a, disk |-> d, ok |-> FALSE]
         ELSE LET ls == Lines(d[file_name])
              IN  [app |-> [a EXCEPT !.text = IF ls = <<>> THEN << <<>> >> ELSE ls],
                   disk |-> d, ok |-> TRUE]
    ELSE [app |-> a, disk |-> d, ok |-> TRUE]

OpenNote(a, d, file_name, io) ==
    IF file_name \in DOMAIN d
    THEN IF ~io.op THEN [app |-> a, disk |-> d, ok |-> FALSE]
         ELSE LET ls == Lines(d[file_name])
              IN  [app |-> [a EXCEPT !.text = IF ls = <<>> THEN << <<>> >> ELSE ls,
                                     !.cursor_x = 0, !.cursor_y = 0],
                   disk |-> d, ok |-> TRUE]
    ELSE [app |-> a, disk |-> d, ok |-> TRUE]

\* A faulty save_note that takes the lines out of the buffer as it writes
\* them (C15 must reject it).
SaveNoteDrainsBuffer(a, d, file_name, io) ==
    IF ~io.op THEN [app |-> a, disk |-> d, ok |-> FALSE]
    ELSE IF ~io.write
         THEN [app |-> [a EXCEPT !.text = <<>>],
               disk |-> WriteFile(d, file_name, <<>>), ok |-> FALSE]
         ELSE [app |-> [a EXCEPT !.text = <<>>],
               disk |-> WriteFile(d, file_name, Written(a.text)), ok |-> TRUE]

SaveNote(a, d, file_name, io) ==
    IF ~io.op THEN [app |-> a, disk |-> d, ok |-> FALSE]
    ELSE IF ~io.write
         THEN [app |-> a, disk |-> WriteFile(d, file_name, <<>>), ok |-> FALSE]
         ELSE [app |-> a, disk |-> WriteFile(d, file_name, Written(a.text)), ok |-> TRUE]

(***************************************************************************)
(* Normal mode: cursor movement and text editing.  Each yields the new App *)
(* and panic, TRUE when an index or slice of the code is out of range.     *)
(***************************************************************************)
Done(a) == [app |-> a, panic |-> FALSE]
Panicked(a) == [app |-> a, panic |-> TRUE]

\* self.text[self.cursor_y] is in range
RowOk(a) == a.cursor_y < Len(a.text)
\* self.text[self.cursor_y]
Row(a) == a.text[a.cursor_y + 1]

MoveLeft(a) ==
    IF a.cursor_x > 0 THEN Done([a EXCEPT !.cursor_x = @ - 1]) ELSE Done(a)

MoveRight(a) ==
    IF ~RowOk(a) THEN Panicked(a)
    ELSE IF a.cursor_x < Len(Row(a)) THEN Done([a EXCEPT !.cursor_x = @ + 1])
    ELSE Done(a)

\* A faulty ClampX that leaves the column as it was (C1 must reject it).
ClampXOff(a) == a

\* The column after the row changed: clamped to the length of the new row.
ClampX(a) ==
    IF a.cursor_x > Len(Row(a)) THEN [a EXCEPT !.cursor_x = Len(Row(a))] ELSE a

\* A faulty Up that always puts the column at the end of the line above (C19
\* must reject it).
MoveUpToEnd(a) ==
    IF a.cursor_y > 0
    THEN LET b == [a EXCEPT !.cursor_y = @ - 1]
         IN  IF ~RowOk(b) THEN Panicked(b) ELSE Done([b EXCEPT !.cursor_x = Len(Row(b))])
    ELSE Done(a)

MoveUp(a) ==
    IF a.cursor_y > 0
    THEN LET b == [a EXCEPT !.cursor_y = @ - 1]
         IN  IF ~RowOk(b) THEN Panicked(b) ELSE Done(ClampX(b))
    ELSE Done(a)

MoveDown(a) ==
    \* text.len() - 1 on an empty Vec is an overflow; the condition is then true
    \* without overflow checks and the index that follows is out of range.
    IF Len(a.text) = 0 THEN Panicked(a)
    ELSE IF a.cursor_y < Len(a.text) - 1
         THEN Done(ClampX([a EXCEPT !.cursor_y = @ + 1]))
         ELSE Done(a)

Backspace(a) ==
    IF a.cursor_x > 0 /\ a.cursor_y < Len(a.text)
    THEN IF a.cursor_x - 1 >= Len(Row(a)) THEN Panicked(a)
         ELSE Done([a EXCEPT !.text[a.cursor_y + 1] = StrRemove(@, a.cursor_x - 1),
                             !.cursor_x = @ - 1])
    ELSE IF ~RowOk(a) THEN Panicked(a)
    ELSE IF Row(a) = <<>> /\ a.cursor_y > 0
         THEN LET t == VecRemove(a.text, a.cursor_y)
              IN  Done([a EXCEPT !.text = t, !.cursor_y = @ - 1,
                                 !.cursor_x = Len(t[a.cursor_y])])
    ELSE IF a.cursor_x = 0 /\ a.cursor_y > 0
         THEN Done([a EXCEPT !.cursor_y = @ - 1,
                             !.cursor_x = Len(a.text[a.cursor_y])])
    ELSE Done(a)

\* A faulty Enter that does not write the truncated line back (C5 must
\* reject it).
EnterKeepLine(a) ==
    IF a.cursor_y >= Len(a.text) \/ a.cursor_x > Len(a.text[a.cursor_y + 1])
    THEN [app |-> a, panic |-> TRUE]
    ELSE [app |-> [a EXCEPT
                     !.text = SubSeq(a.text, 1, a.cursor_y + 1)
                                \o <<SubSeq(a.text[a.cursor_y + 1], a.cursor_x + 1,
                                             Len(a.text[a.cursor_y + 1]))>>
                                \o SubSeq(a.text, a.cursor_y + 2, Len(a.text)),
                     !.cursor_y = @ + 1,
                     !.cursor_x = 0],
          panic |-> FALSE]

Enter(a) ==
    IF ~RowOk(a) \/ a.cursor_x > Len(Row(a)) THEN Panicked(a)
    ELSE LET current_line == StrTruncate(Row(a), a.cursor_x)
             new_line == StrSplitOff(Row(a), a.cursor_x)
         IN  Done([a EXCEPT
                     !.text = VecInsert([a.text EXCEPT ![a.cursor_y + 1] = current_line],
                                        a.cursor_y + 1, new_line),
                     !.cursor_y = @ + 1,
                     !.cursor_x = 0])

\* A faulty default arm that pushes the character at the end of the line
\* instead of inserting it at the cursor (C20 must reject it).
InsertCharAtEnd(a, c) ==
    IF ~RowOk(a) \/ a.cursor_x > Len(Row(a)) THEN Panicked(a)
    ELSE LET line == Row(a) \o <<c>>
             x == a.cursor_x + 1
         IN  Done([a EXCEPT !.text[a.cursor_y + 1] = line,
                            !.cursor_x = IF x > Len(line) THEN Len(line) ELSE x])

\* The push of an empty line when cursor_y >= text.len() cannot happen after
\* the index self.text[self.cursor_y] succeeded, and is left out.
InsertChar(a, c) ==
    IF ~RowOk(a) \/ a.cursor_x > Len(Row(a)) THEN Panicked(a)
    ELSE LET line == StrInsert(Row(a), a.cursor_x, c)
             x == a.cursor_x + 1
         IN  Done([a EXCEPT !.text[a.cursor_y + 1] = line,
                            !.cursor_x = IF x > Len(line) THEN Len(line) ELSE x])

(***************************************************************************)
(* handle_key_event.  Each branch yields the new App, the new folder and   *)
(* panic.                                                                  *)
(***************************************************************************)
Res(a, d) == [app |-> a, disk |-> d, panic |-> FALSE]
Abort(a, d) == [app |-> a, disk |-> d, panic |-> TRUE]
OnDisk(r, d) == [app |-> r.app, disk |-> d, panic |-> r.panic]

\* A faulty create-mode Enter that does not test the pending name for
\* emptiness (C11 must reject it).
CreateModeEnterAnyName(a, d, io) ==
    LET file_name == a.new_file_name
        r == CreateNote(a, d, file_name, io)
    IN  IF ~r.ok THEN Res(r.app, r.disk)
        ELSE Res([r.app EXCEPT !.current_file = <<file_name>>,
                               !.note_create_mode = FALSE,
                               !.new_file_name = <<>>], r.disk)

\* A faulty create-mode Enter that leaves the pending name in place after a
\* successful create (C22 must reject it).
CreateModeEnterKeepsName(a, d, io) ==
    IF a.new_file_name # <<>>
    THEN LET file_name == a.new_file_name
             r == CreateNote(a, d, file_name, io)
         IN  IF ~r.ok THEN Res(r.app, r.disk)
             ELSE Res([r.app EXCEPT !.current_file = <<file_name>>,
                                    !.note_create_mode = FALSE], r.disk)
    ELSE Res(a, d)

\* if self.note_create_mode { ... return; }
CreateModeEnter(a, d, io) ==
    IF a.new_file_name # <<>>
    THEN LET file_name == a.new_file_name
             r == CreateNote(a, d, file_name, io)
         IN  IF ~r.ok THEN Res(r.app, r.disk)
             ELSE Res([r.app EXCEPT !.current_file = <<file_name>>,
                                    !.note_create_mode = FALSE,
                                    !.new_file_name = <<>>], r.disk)
    ELSE Res(a, d)

\* A faulty create-mode handler whose Esc leaves the mode without clearing
\* the pending name (C21 must reject it).
CreateModeKeyEscKeepsName(a, d, key, io) ==
    IF key.code = "Enter" THEN CreateModeEnter(a, d, io)
    ELSE IF key.code = "Backspace"
         THEN IF a.new_file_name # <<>>
              THEN Res([a EXCEPT !.new_file_name = SubSeq(@, 1, Len(@) - 1)], d)
              ELSE Res(a, d)
    ELSE IF key.code = "Esc"
         THEN Res([a EXCEPT !.note_create_mode = FALSE], d)
    ELSE IF AsChar(key) # <<>>
         THEN Res([a EXCEPT !.new_file_name = @ \o AsChar(key)], d)
    ELSE Res(a, d)

CreateModeKey(a, d, key, io) ==
    IF key.code = "Enter" THEN CreateModeEnter(a, d, io)
    ELSE IF key.code = "Backspace"
         THEN IF a.new_file_name # <<>>
              THEN Res([a EXCEPT !.new_file_name = SubSeq(@, 1, Len(@) - 1)], d)
              ELSE Res(a, d)
    ELSE IF key.code = "Esc"
         THEN Res([a EXCEPT !.note_create_mode = FALSE, !.new_file_name = <<>>], d)
    ELSE IF AsChar(key) # <<>>
         THEN Res([a EXCEPT !.new_file_name = @ \o AsChar(key)], d)
    ELSE Res(a, d)

\* else if self.file_select_mode { ... return; }
SelectModeEnter(a, d, io) ==
    IF a.file_select_index < Len(a.files)
    THEN LET file_name == a.files[a.file_select_index + 1]
             r == OpenNote(a, d, file_name, io)
         IN  IF ~r.ok THEN Res(r.app, r.disk)
             ELSE Res([r.app EXCEPT !.current_file = <<file_name>>,
                                    !.file_select_mode = FALSE,
                                    !.file_select_index = 0], r.disk)
    ELSE Res(a, d)

SelectModeUp(a) ==
    IF a.file_select_index > 0 THEN [a EXCEPT !.file_select_index = @ - 1] ELSE a

\* self.files.len() - 1 in usize, wrapping (overflow checks off)
LastIndex(a) == IF Len(a.files) = 0 THEN UsizeMax ELSE Len(a.files) - 1

SelectModeDown(a, d, io) ==
    IF Len(a.files) = 0 /\ ~io.wrap THEN Abort(a, d)
    ELSE IF a.file_select_index < LastIndex(a)
         THEN Res([a EXCEPT !.file_select_index = @ + 1], d)
         ELSE Res(a, d)

SelectModeKey(a, d, key, io) ==
    IF key.code = "Enter" THEN SelectModeEnter(a, d, io)
    ELSE IF key.code = "Esc" THEN Res([a EXCEPT !.file_select_mode = FALSE], d)
    ELSE IF key.code = "Up" \/ (key.code = "Char" /\ key.ch = "w")
         THEN Res(SelectModeUp(a), d)
    ELSE IF key.code = "Down" \/ (key.code = "Char" /\ key.ch = "s")
         THEN SelectModeDown(a, d, io)
    ELSE Res(a, d)

\* Ctrl+S
CtrlS(a, d, io) ==
    IF a.current_file # <<>>
    THEN LET r == SaveNote(a, d, a.current_file[1], io) IN Res(r.app, r.disk)
    ELSE Res(a, d)

\* Ctrl+O: get_notes().expect(..) panics on an Err
CtrlO(a, d, io) ==
    LET r == GetNotes([a EXCEPT !.file_select_mode = TRUE], d, io)
    IN  IF r.ok THEN Res(r.app, r.disk) ELSE Abort(r.app, r.disk)

\* match key_event.code { ... }
NormalModeKey(a, d, key, io) ==
    IF IsCtrl(key, "s") THEN CtrlS(a, d, io)
    ELSE IF IsCtrl(key, "e") THEN Res([a EXCEPT !.explorer_open = ~@], d)
    ELSE IF IsCtrl(key, "q") THEN Res([a EXCEPT !.exit = TRUE], d)
    ELSE IF IsCtrl(key, "n") THEN Res([a EXCEPT !.note_create_mode = TRUE], d)
    ELSE IF IsCtrl(key, "o") THEN CtrlO(a, d, io)
    ELSE IF IsCtrl(key, "h") THEN Res([a EXCEPT !.help_menu_open = ~@], d)
    ELSE IF key.code = "Left" THEN OnDisk(MoveLeft(a), d)
    ELSE IF key.code = "Right" THEN OnDisk(MoveRight(a), d)
    ELSE IF key.code = "Up" THEN OnDisk(MoveUp(a), d)
    ELSE IF key.code = "Down" THEN OnDisk(MoveDown(a), d)
    ELSE IF key.code = "Backspace" THEN OnDisk(Backspace(a), d)
    ELSE IF key.code = "Enter" THEN OnDisk(Enter(a), d)
    ELSE IF AsChar(key) # <<>> THEN OnDisk(InsertChar(a, key.ch), d)
    ELSE Res(a, d)

\* The mode whose handler handle_key_event dispatches to.
ModeOf(a) ==
    IF a.note_create_mode THEN "CreateNote"
    ELSE IF a.file_select_mode THEN "SelectFile"
    ELSE "Normal"

\* A faulty dispatch that serves the Ctrl shortcuts before the modes (C12 must
\* reject it).
HandleKeyEventShortcutsFirst(a, d, key, io) ==
    IF key.ctrl /\ key.code = "Char" /\ key.ch \in {"s", "e", "q", "n", "o", "h"}
    THEN NormalModeKey(a, d, key, io)
    ELSE IF a.note_create_mode THEN CreateModeKey(a, d, key, io)
    ELSE IF a.file_select_mode THEN SelectModeKey(a, d, key, io)
    ELSE NormalModeKey(a, d, key, io)

\* A faulty dispatch whose mode branches lack their return and fall through
\* to the match of Normal mode (C13 must reject it).
HandleKeyEventFallThrough(a, d, key, io) ==
    LET m == IF a.note_create_mode THEN CreateModeKey(a, d, key, io)
             ELSE IF a.file_select_mode THEN SelectModeKey(a, d, key, io)
             ELSE Res(a, d)
    IN  IF m.panic THEN m ELSE NormalModeKey(m.app, m.disk, key, io)

\* A faulty dispatch whose Ctrl+H in Normal mode opens the help menu instead
\* of toggling it (C23 must reject it).
HandleKeyEventHelpOn(a, d, key, io) ==
    IF a.note_create_mode THEN CreateModeKey(a, d, key, io)
    ELSE IF a.file_select_mode THEN SelectModeKey(a, d, key, io)
    ELSE IF IsCtrl(key, "h") THEN Res([a EXCEPT !.help_menu_open = TRUE], d)
    ELSE NormalModeKey(a, d, key, io)

\* A faulty dispatch in which an open help menu swallows every key but
\* Ctrl+H (C24 must reject it).
HandleKeyEventHelpModal(a, d, key, io) ==
    IF a.help_menu_open /\ ~IsCtrl(key, "h")
    THEN Res(IF IsCtrl(key, "q") THEN [a EXCEPT !.exit = TRUE] ELSE a, d)
    ELSE IF a.note_create_mode THEN CreateModeKey(a, d, key, io)
    ELSE IF a.file_select_mode THEN SelectModeKey(a, d, key, io)
    ELSE NormalModeKey(a, d, key, io)

HandleKeyEvent(a, d, key, io) ==
    IF a.note_create_mode THEN CreateModeKey(a, d, key, io)
    ELSE IF a.file_select_mode THEN SelectModeKey(a, d, key, io)
    ELSE NormalModeKey(a, d, key, io)

\* The outcomes of the file-system calls the handler of key can meet in a.
Outcomes(a, key) ==
    IF a.note_create_mode
    THEN IF key.code = "Enter" /\ a.new_file_name # <<>>
         THEN {AllOk, FailOp, FailWrite, FailList} ELSE {AllOk}
    ELSE IF a.file_select_mode
    THEN IF key.code = "Enter" /\ a.file_select_index < Len(a.files)
         THEN {AllOk, FailOp}
         ELSE IF (key.code = "Down" \/ (key.code = "Char" /\ key.ch = "s"))
                   /\ Len(a.files) = 0
         THEN {AllOk, Wrapping} ELSE {AllOk}
    ELSE IF IsCtrl(key, "s") THEN {AllOk, FailOp, FailWrite}
    ELSE IF IsCtrl(key, "o") THEN {AllOk, FailList}
    ELSE {AllOk}

(***************************************************************************)
(* The program: App::run around handle_events, and the notes folder.       *)
(***************************************************************************)
\* Folders the program may be started on: an empty one, and one holding
\* default.txt, an empty note and a note with a CRLF line, an empty line and
\* a last line that ends with a carriage return and no line ending.
EmptyDisk == [n \in {} |-> <<>>]
ThreeNotes ==
    [n \in {DefaultFile, <<"s">>, <<"w">>} |->
        IF n = DefaultFile THEN <<"s", "w", NL>>
        ELSE IF n = <<"s">> THEN <<>>
        ELSE <<"w", CR, NL, NL, "s", CR>>]
InitDisks == {EmptyDisk, ThreeNotes}

\* No key event is being reported.
NoEvent == [key |-> NoKey, mode |-> "Normal", io |-> AllOk]

SetApp(a) ==
    /\ text' = a.text
    /\ files' = a.files
    /\ current_file' = a.current_file
    /\ exit' = a.exit
    /\ explorer_open' = a.explorer_open
    /\ help_menu_open' = a.help_menu_open
    /\ note_create_mode' = a.note_create_mode
    /\ new_file_name' = a.new_file_name
    /\ file_select_mode' = a.file_select_mode
    /\ file_select_index' = a.file_select_index
    /\ cursor_x' = a.cursor_x
    /\ cursor_y' = a.cursor_y

Init ==
    /\ text = DefaultApp.text
    /\ files = DefaultApp.files
    /\ current_file = DefaultApp.current_file
    /\ exit = DefaultApp.exit
    /\ explorer_open = DefaultApp.explorer_open
    /\ help_menu_open = DefaultApp.help_menu_open
    /\ note_create_mode = DefaultApp.note_create_mode
    /\ new_file_name = DefaultApp.new_file_name
    /\ file_select_mode = DefaultApp.file_select_mode
    /\ file_select_index = DefaultApp.file_select_index
    /\ cursor_x = DefaultApp.cursor_x
    /\ cursor_y = DefaultApp.cursor_y
    /\ disk \in InitDisks
    /\ pc = "start"
    /\ nevents = 0
    /\ last = NoEvent

\* run: self.open_note(current_file or "default.txt")?
Start ==
    /\ pc = "start"
    /\ \E io \in {AllOk, FailOp} :
         LET file_name == IF current_file # <<>> THEN current_file[1] ELSE DefaultFile
             r == OpenNote(App, disk, file_name, io)
         IN  /\ SetApp(r.app)
             /\ pc' = IF r.ok THEN (IF exit THEN "done" ELSE "frame") ELSE "failed"
    /\ UNCHANGED <<disk, nevents, last>>

\* run: self.get_notes()?; terminal.draw(..), which only reads the App
Frame ==
    /\ pc = "frame"
    /\ \E io \in {AllOk, FailList} :
         LET r == GetNotes(App, disk, io)
         IN  /\ SetApp(r.app)
             /\ pc' = IF r.ok THEN "event" ELSE "failed"
    /\ last' = NoEvent
    /\ UNCHANGED <<disk, nevents>>

\* run: self.handle_events()?, then the test of while !self.exit
HandleEvents(key, io) ==
    /\ pc = "event"
    /\ nevents < MaxEvents
    /\ LET r == HandleKeyEvent(App, disk, key, io)
       IN  /\ SetApp(r.app)
           /\ disk' = r.disk
           /\ pc' = IF r.panic THEN "panicked"
                    ELSE IF r.app.exit THEN "done" ELSE "frame"
    /\ nevents' = nevents + 1
    /\ last' = [key |-> key, mode |-> ModeOf(App), io |-> io]

KeyInCreateMode ==
    /\ note_create_mode
    /\ \E key \in Keys : \E io \in Outcomes(App, key) : HandleEvents(key, io)

KeyInSelectMode ==
    /\ ~note_create_mode /\ file_select_mode
    /\ \E key \in Keys : \E io \in Outcomes(App, key) : HandleEvents(key, io)

KeyInNormalMode ==
    /\ ~note_create_mode /\ ~file_select_mode
    /\ \E key \in Keys : \E io \in Outcomes(App, key) : HandleEvents(key, io)

\* Another program removes a note while this one waits for a key.
ExternalDelete ==
    /\ pc = "event"
    /\ nevents < MaxEvents
    /\ \E n \in DOMAIN disk : disk' = RemoveFile(disk, n)
    /\ nevents' = nevents + 1
    /\ UNCHANGED <<appvars, pc, last>>

Next == Start \/ Frame \/ KeyInCreateMode \/ KeyInSelectMode \/ KeyInNormalMode
          \/ ExternalDelete

Spec == Init /\ [][Next]_vars

Normal == ~note_create_mode /\ ~file_select_mode

\* What handle_key_event does to the current state on key, meeting io.
Press(key, io) == HandleKeyEvent(App, disk, key, io)

TypeOK ==
    /\ pc \in {"start", "frame", "event", "done", "failed", "panicked"}
    /\ nevents \in 0..MaxEvents
    /\ cursor_x \in Nat /\ cursor_y \in Nat /\ file_select_index \in Nat

(***************************************************************************)
(* Properties.  Waiting holds where the program waits for a key event: a   *)
(* property of the form Waiting /\ P => Q(Press(key, io)) says what the    *)
(* handler does with key in every state the program can receive it in.     *)
(***************************************************************************)
Waiting == pc = "event"
KeyEnter == Special("Enter")
KeyBackspace == Special("Backspace")

\* C1: in every reachable state the cursor addresses a line of the buffer and
\* a column of that line, the end-of-line slot included:
\* 0 <= cursor_y < number of lines and 0 <= cursor_x <= length of line cursor_y.
C1_CursorInBounds ==
    /\ 0 <= cursor_y /\ cursor_y < Len(text)
    /\ 0 <= cursor_x /\ cursor_x <= Len(text[cursor_y + 1])

\* Reached: a Normal-mode key has just left the cursor in the end-of-line slot
\* of a non-empty line that is not the first.
C1_Witness ==
    /\ last.mode = "Normal" /\ last.key # NoKey
    /\ cursor_y > 0
    /\ cursor_x > 0 /\ cursor_x = Len(text[cursor_y + 1])

\* C2: the buffer has at least one line in every reachable state.
C2_AtLeastOneLine == Len(text) >= 1

\* Reached: Enter in SelectFile has just opened the empty note "s", and the
\* buffer is the single empty line.
C2_Witness ==
    /\ last.mode = "SelectFile" /\ last.key = KeyEnter /\ last.io = AllOk
    /\ current_file = << <<"s">> >>
    /\ <<"s">> \in DOMAIN disk /\ disk[<<"s">>] = <<>>
    /\ text = << <<>> >>

\* C3: in Normal mode Backspace at column 0 of a row > 0 joins the lines,
\* whatever the current line holds: the current line is appended to the previous
\* one and removed, and the cursor becomes (previous row, old length of the
\* previous line).
C3_BackspaceJoins ==
    (Waiting /\ Normal /\ cursor_x = 0 /\ cursor_y > 0) =>
        LET r == Press(KeyBackspace, AllOk)
            prev == text[cursor_y]
            cur == text[cursor_y + 1]
        IN  /\ ~r.panic
            /\ r.app.text = SubSeq(text, 1, cursor_y - 1) \o <<prev \o cur>>
                              \o SubSeq(text, cursor_y + 2, Len(text))
            /\ r.app.cursor_y = cursor_y - 1
            /\ r.app.cursor_x = Len(prev)

\* C4: in Normal mode Enter followed by Backspace at the resulting (row+1, 0)
\* cursor gives back the original buffer, for every column.
C4_SplitThenJoin ==
    (Waiting /\ Normal) =>
        LET e == Press(KeyEnter, AllOk)
            b == HandleKeyEvent(e.app, e.disk, KeyBackspace, AllOk)
        IN  /\ ~e.panic /\ ~b.panic
            /\ b.app.text = text

\* C5: in Normal mode Enter truncates line cursor_y to its first cursor_x
\* characters, inserts the remainder as a new line right after it (the other
\* lines keep their order and content, the line count grows by one) and puts
\* the cursor at column 0 of the new line.
C5_EnterSplits ==
    (Waiting /\ Normal) =>
        LET r == Press(KeyEnter, AllOk)
            line == text[cursor_y + 1]
        IN  /\ ~r.panic
            /\ Len(r.app.text) = Len(text) + 1
            /\ \A i \in 1..(Len(text) + 1) :
                 r.app.text[i] =
                    IF i <= cursor_y THEN text[i]
                    ELSE IF i = cursor_y + 1 THEN SubSeq(line, 1, cursor_x)
                    ELSE IF i = cursor_y + 2 THEN SubSeq(line, cursor_x + 1, Len(line))
                    ELSE text[i - 1]
            /\ r.app.cursor_x = 0
            /\ r.app.cursor_y = cursor_y + 1

\* Reached: Enter in Normal mode has just split a line between two characters,
\* leaving a non-empty line before the cursor and a non-empty one under it.
C5_Witness ==
    /\ last.mode = "Normal" /\ last.key = KeyEnter
    /\ cursor_x = 0 /\ cursor_y > 0
    /\ text[cursor_y] # <<>> /\ text[cursor_y + 1] # <<>>

\* C6: while SelectFile is active the highlighted index stays within the
\* listing, 0 <= file_select_index <= files.len() - 1 (0 for an empty listing),
\* whatever Up and Down presses came before and however the listing was rebuilt.
C6_IndexInListing ==
    file_select_mode =>
        /\ 0 <= file_select_index
        /\ file_select_index <= (IF Len(files) = 0 THEN 0 ELSE Len(files) - 1)

\* C7: Ctrl+O in Normal mode, after any history, enters SelectFile with the
\* highlighted index 0 and the listing equal to the sorted content of the
\* folder; with an empty folder the listing is empty and Enter does nothing.
C7_OpenStartsAtTop ==
    (Waiting /\ Normal) =>
        LET r == Press(Ctrl("o"), AllOk)
        IN  /\ ~r.panic
            /\ r.app.file_select_mode
            /\ r.app.file_select_index = 0
            /\ r.app.files = Sorted(DOMAIN disk)
            /\ DOMAIN disk = {} =>
                 /\ r.app.files = <<>>
                 /\ HandleKeyEvent(r.app, r.disk, KeyEnter, AllOk) = Res(r.app, r.disk)

\* C8: in SelectFile Enter on a listed file whose read succeeds replaces the
\* buffer by the lines of the file (one empty line for an empty file), makes
\* the file the current file, puts the cursor at (0,0) and returns to Normal.
C8_OpenReplacesBuffer ==
    (Waiting /\ ModeOf(App) = "SelectFile" /\ file_select_index < Len(files)
       /\ files[file_select_index + 1] \in DOMAIN disk) =>
        LET name == files[file_select_index + 1]
            r == Press(KeyEnter, AllOk)
        IN  /\ ~r.panic
            /\ r.app.text = IF disk[name] = <<>> THEN << <<>> >> ELSE Lines(disk[name])
            /\ (disk[name] = <<"w", CR, NL, NL, "s", CR>>) =>
                  r.app.text = << <<"w">>, <<>>, <<"s", CR>> >>
            /\ r.app.current_file = <<name>>
            /\ r.app.cursor_x = 0 /\ r.app.cursor_y = 0
            /\ ModeOf(r.app) = "Normal"
            /\ r.disk = disk

\* Reached: Enter in SelectFile has just opened the note "w", whose content
\* has a CRLF line, an empty line and a last line without line ending; the
\* buffer holds its three lines, the cursor is at (0,0) and the mode is Normal.
C8_Witness ==
    /\ last.mode = "SelectFile" /\ last.key = KeyEnter /\ last.io = AllOk
    /\ current_file = << <<"w">> >>
    /\ text = << <<"w">>, <<>>, <<"s", CR>> >>
    /\ cursor_x = 0 /\ cursor_y = 0
    /\ Normal

\* C9: in SelectFile, Enter on a file whose read fails (the file is gone from
\* the folder, or the read returns an error) leaves the mode SelectFile and
\* the buffer, the cursor and the current file as they were.
C9_FailedOpenChangesNothing ==
    (Waiting /\ ModeOf(App) = "SelectFile" /\ file_select_index < Len(files)) =>
        \A io \in {AllOk, FailOp} :
            (files[file_select_index + 1] \notin DOMAIN disk \/ ~io.op) =>
                LET r == Press(KeyEnter, io)
                IN  /\ ~r.panic
                    /\ ModeOf(r.app) = "SelectFile"
                    /\ r.app.text = text
                    /\ r.app.cursor_x = cursor_x /\ r.app.cursor_y = cursor_y
                    /\ r.app.current_file = current_file

\* C10: in CreateNote, Enter with a non-empty pending name whose create
\* succeeds makes that name the current file, loads an empty buffer (a single
\* empty line, cursor at (0,0)) and returns to Normal, whatever the buffer held.
C10_CreateLoadsEmptyBuffer ==
    (Waiting /\ note_create_mode /\ new_file_name # <<>>) =>
        LET r == Press(KeyEnter, AllOk)
        IN  /\ ~r.panic
            /\ r.app.current_file = <<new_file_name>>
            /\ r.app.text = << <<>> >>
            /\ r.app.cursor_x = 0 /\ r.app.cursor_y = 0
            /\ ModeOf(r.app) = "Normal"

\* Every outcome the file-system calls of a handler can meet.
AllOutcomes == {AllOk, FailOp, FailWrite, FailList, Wrapping}

\* C11: in CreateNote, Enter with an empty pending name calls nothing of the
\* store and changes nothing: the mode stays CreateNote and the buffer, the
\* cursor, the current file, every other field and the folder are as before.
C11_EmptyNameEnterChangesNothing ==
    (Waiting /\ note_create_mode /\ new_file_name = <<>>) =>
        \A io \in AllOutcomes :
            LET r == Press(KeyEnter, io)
            IN  /\ ~r.panic
                /\ r.app = App
                /\ r.app.note_create_mode
                /\ r.disk = disk

\* Reached: Enter was pressed in CreateNote with no name typed after the buffer
\* was edited; the mode is still CreateNote and the name is still empty.
C11_Witness ==
    /\ last.mode = "CreateNote" /\ last.key = KeyEnter
    /\ note_create_mode /\ new_file_name = <<>>
    /\ Len(text) > 1

\* Character, arrow, Enter and Backspace keys, each with and without Ctrl.
RoutedKeys ==
    [code : {"Enter", "Backspace", "Up", "Down", "Left", "Right"},
     ch : {""}, ctrl : BOOLEAN]
        \cup [code : {"Char"}, ch : {"s", "w", "e", "q", "n", "o", "h"},
              ctrl : BOOLEAN]

\* C12: while CreateNote or SelectFile is active, every character, arrow,
\* Enter or Backspace key, with or without Ctrl, goes to the handler of that
\* mode: it neither edits the buffer nor moves the cursor, except that a
\* successful Enter of SelectFile replaces them by the opened note, and it
\* triggers no global shortcut: no note already in the folder is written, exit,
\* explorer_open and help_menu_open keep their values and the other mode is
\* not entered.
C12_ModesConsumeKeys ==
    (Waiting /\ ~Normal) =>
        \A key \in RoutedKeys : \A io \in Outcomes(App, key) :
            LET r == Press(key, io)
                opens == /\ ModeOf(App) = "SelectFile" /\ key.code = "Enter"
                         /\ file_select_index < Len(files)
                         /\ files[file_select_index + 1] \in DOMAIN disk
                         /\ io.op
            IN  /\ IF opens
                   THEN /\ r.app.text \in {Lines(disk[files[file_select_index + 1]]),
                                           << <<>> >>}
                        /\ r.app.cursor_x = 0 /\ r.app.cursor_y = 0
                   ELSE /\ r.app.text = text
                        /\ r.app.cursor_x = cursor_x /\ r.app.cursor_y = cursor_y
                /\ \A n \in DOMAIN disk : n \in DOMAIN r.disk /\ r.disk[n] = disk[n]
                /\ \A n \in DOMAIN r.disk \ DOMAIN disk : r.disk[n] = <<>>
                /\ r.app.exit = exit
                /\ r.app.explorer_open = explorer_open
                /\ r.app.help_menu_open = help_menu_open
                /\ ModeOf(r.app) \in {ModeOf(App), "Normal"}

\* Reached: Ctrl+Q was pressed in SelectFile over an edited buffer; the
\* program has not exited and SelectFile is still active.
C12_Witness ==
    /\ last.mode = "SelectFile" /\ last.key = Ctrl("q")
    /\ file_select_mode /\ ~exit
    /\ Len(text) > 1

\* C13: in every reachable state note_create_mode and file_select_mode are
\* not both true: at most one of CreateNote and SelectFile is active.
C13_OneModeAtATime == ~(note_create_mode /\ file_select_mode)

\* Reached: Ctrl+O was pressed while CreateNote was active; CreateNote is
\* still active and SelectFile is not.
C13_Witness ==
    /\ last.mode = "CreateNote" /\ last.key = Ctrl("o")
    /\ note_create_mode /\ ~file_select_mode

\* C14: no failure of a store call ends the loop of run.  A step taken inside
\* the loop (the refresh of the listing of a frame, or the handling of a key)
\* leaves the program inside the loop, whatever listing, save, create or open
\* failed, unless it is Ctrl+Q in Normal mode, which ends the loop, or a panic
\* that no store call caused.
C14_StoreFailuresKeepLoopRunning ==
    [][(pc \in {"frame", "event"}) =>
          (\/ pc' \in {"frame", "event"}
           \/ (pc' = "done" /\ last'.mode = "Normal" /\ last'.key = Ctrl("q"))
           \/ (pc' = "panicked" /\ last'.io.list))]_vars

KeyCtrlS == Ctrl("s")

\* C15: Ctrl+S in Normal mode leaves the App as it was, whether the save
\* succeeds or fails at the open or at a write: text, cursor, mode flags,
\* current file and every other field keep their values.
C15_SaveLeavesModelUnchanged ==
    (Waiting /\ Normal) =>
        \A io \in AllOutcomes :
            LET r == Press(KeyCtrlS, io)
            IN  /\ ~r.panic
                /\ r.app = App

\* Reached: Ctrl+S was pressed in Normal mode on an edited buffer with the
\* cursor away from (0,0), and the write failed after the file was opened.
C15_Witness ==
    /\ last.mode = "Normal" /\ last.key = KeyCtrlS /\ last.io = FailWrite
    /\ Normal
    /\ Len(text) > 1 /\ cursor_y > 0
    /\ current_file # <<>>

\* Ctrl+S with every call succeeding, then open_note of the current file with
\* every call succeeding: the folder after the save and the App after the open.
SavedThenOpened ==
    LET s == Press(KeyCtrlS, AllOk)
        o == OpenNote(s.app, s.disk, current_file[1], AllOk)
    IN  [disk |-> s.disk, app |-> o.app]

\* No line of the buffer ends with a carriage return.
NoLineEndsWithCR == \A i \in 1..Len(text) : StripCR(text[i]) = text[i]

\* C16 as claimed: after a successful Ctrl+S in Normal mode with a current
\* file, opening that file yields a buffer equal line for line to the one
\* saved, for every buffer.
C16_SaveThenOpenRestoresBuffer ==
    (Waiting /\ Normal /\ current_file # <<>>) =>
        SavedThenOpened.app.text = text

\* C16: after a successful Ctrl+S in Normal mode with a current file, the
\* folder holds that file with each line of the buffer followed by "\n" and
\* nothing of its previous content, every other file is as before, and when no
\* line of the buffer ends with a carriage return, opening the file yields a
\* buffer equal line for line to the one saved.
C16_SaveThenOpenRestoresBufferWithoutCR ==
    (Waiting /\ Normal /\ current_file # <<>>) =>
        LET name == current_file[1]
            r == SavedThenOpened
        IN  /\ DOMAIN r.disk = DOMAIN disk \cup {name}
            /\ r.disk[name] = Written(text)
            /\ \A n \in DOMAIN disk \ {name} : r.disk[n] = disk[n]
            /\ NoLineEndsWithCR => r.app.text = text

\* Reached: Ctrl+S has just succeeded on a buffer whose last line is empty and
\* whose first is not; the file holds the lines of the buffer, and no longer
\* the content it had before.
C16_Witness ==
    /\ last.mode = "Normal" /\ last.key = KeyCtrlS /\ last.io = AllOk
    /\ current_file = <<DefaultFile>>
    /\ Len(text) > 1 /\ text[1] # <<>> /\ text[Len(text)] = <<>>
    /\ NoLineEndsWithCR
    /\ disk[DefaultFile] = Written(text)
    /\ disk[DefaultFile] # ThreeNotes[DefaultFile]

KeyLeft == Special("Left")
KeyRight == Special("Right")
KeyUp == Special("Up")
KeyDown == Special("Down")

\* C17: in Normal mode Left leaves the buffer unchanged and moves the cursor
\* one column back when cursor_x > 0, to the end of the previous line when
\* cursor_x = 0 and cursor_y > 0, and nowhere at (0,0).
C17_LeftWrapsToPreviousLine ==
    (Waiting /\ Normal) =>
        LET r == Press(KeyLeft, AllOk)
        IN  /\ ~r.panic
            /\ r.app.text = text
            /\ r.app.cursor_x = IF cursor_x > 0 THEN cursor_x - 1
                                ELSE IF cursor_y > 0 THEN Len(text[cursor_y])
                                ELSE 0
            /\ r.app.cursor_y = IF cursor_x = 0 /\ cursor_y > 0 THEN cursor_y - 1
                                ELSE cursor_y

\* C18: in Normal mode Right leaves the buffer unchanged and moves the cursor
\* one column on when it is before the end of its line, to column 0 of the
\* next line when it is at the end of a line that is not the last, and nowhere
\* at the end of the last line.
C18_RightWrapsToNextLine ==
    (Waiting /\ Normal) =>
        LET r == Press(KeyRight, AllOk)
            atEnd == cursor_x >= Len(text[cursor_y + 1])
            wraps == atEnd /\ cursor_y + 1 < Len(text)
        IN  /\ ~r.panic
            /\ r.app.text = text
            /\ r.app.cursor_x = IF ~atEnd THEN cursor_x + 1
                                ELSE IF wraps THEN 0 ELSE cursor_x
            /\ r.app.cursor_y = IF wraps THEN cursor_y + 1 ELSE cursor_y

\* The smaller of two numbers.
Min(m, n) == IF m < n THEN m ELSE n

\* C19: in Normal mode Up and Down leave the buffer unchanged; they move the
\* cursor by exactly one row when the target row exists, the column becoming
\* the smaller of the column it had and the length of the target line, and
\* leave the cursor where it is otherwise.
C19_UpDownClampColumn ==
    (Waiting /\ Normal) =>
        LET u == Press(KeyUp, AllOk)
            d == Press(KeyDown, AllOk)
        IN  /\ ~u.panic /\ ~d.panic
            /\ u.app.text = text /\ d.app.text = text
            /\ IF cursor_y > 0
               THEN /\ u.app.cursor_y = cursor_y - 1
                    /\ u.app.cursor_x = Min(cursor_x, Len(text[cursor_y]))
               ELSE /\ u.app.cursor_y = cursor_y /\ u.app.cursor_x = cursor_x
            /\ IF cursor_y + 1 < Len(text)
               THEN /\ d.app.cursor_y = cursor_y + 1
                    /\ d.app.cursor_x = Min(cursor_x, Len(text[cursor_y + 2]))
               ELSE /\ d.app.cursor_y = cursor_y /\ d.app.cursor_x = cursor_x

\* Reached: Up has just moved the cursor from a longer line to the empty first
\* line of the buffer, at column 0.
C19_Witness ==
    /\ last.mode = "Normal" /\ last.key = KeyUp
    /\ Normal
    /\ Len(text) > 1 /\ text[1] = <<>> /\ Len(text[2]) > 1
    /\ cursor_y = 0 /\ cursor_x = 0

\* Printable characters a key press can carry.
PrintableChars == {"s", "w", "e", "q", " ", "."}

\* C20: in Normal mode, for every reachable buffer and cursor and every
\* printable character, the key of that character inserts it at the cursor
\* and moves the cursor one column on, and Backspace pressed next gives back
\* the buffer and the cursor there were before, all else being unchanged.
C20_InsertThenBackspace ==
    (Waiting /\ Normal) =>
        \A c \in PrintableChars :
            LET line == text[cursor_y + 1]
                i == Press(Char(c), AllOk)
                b == HandleKeyEvent(i.app, i.disk, KeyBackspace, AllOk)
            IN  /\ ~i.panic
                /\ i.app.text = [text EXCEPT ![cursor_y + 1] =
                                    SubSeq(line, 1, cursor_x) \o <<c>>
                                        \o SubSeq(line, cursor_x + 1, Len(line))]
                /\ i.app.cursor_x = cursor_x + 1 /\ i.app.cursor_y = cursor_y
                /\ ~b.panic
                /\ b.app.text = text
                /\ b.app.cursor_x = cursor_x /\ b.app.cursor_y = cursor_y
                /\ b.app = App /\ b.disk = disk

\* Reached: a character has just been inserted in Normal mode between two
\* characters of a line, and a further key can be pressed.
C20_Witness ==
    /\ last.mode = "Normal" /\ last.key = Char("w")
    /\ Normal /\ nevents < MaxEvents
    /\ cursor_x > 1 /\ cursor_x < Len(text[cursor_y + 1])
    /\ text[cursor_y + 1][cursor_x] = "w"

KeyEsc == Special("Esc")

\* C21: in CreateNote and in SelectFile, Esc returns to Normal mode and
\* leaves the buffer, the cursor, the current file and the folder as they
\* were; from CreateNote the pending name is empty afterwards.
C21_EscReturnsToNormal ==
    (Waiting /\ ~Normal) =>
        \A io \in AllOutcomes :
            LET r == Press(KeyEsc, io)
            IN  /\ ~r.panic
                /\ ModeOf(r.app) = "Normal"
                /\ r.app.text = text
                /\ r.app.cursor_x = cursor_x /\ r.app.cursor_y = cursor_y
                /\ r.app.current_file = current_file
                /\ r.disk = disk
                /\ note_create_mode => r.app.new_file_name = <<>>

\* Reached: Esc was pressed in CreateNote over an edited buffer with the
\* cursor on its second line; the mode is Normal and the name is empty.
C21_Witness ==
    /\ last.mode = "CreateNote" /\ last.key = KeyEsc
    /\ Normal /\ new_file_name = <<>>
    /\ Len(text) > 1 /\ cursor_y > 0

KeyCtrlN == Ctrl("n")

\* C22: the pending name is empty in every reachable state in which
\* CreateNote is not active, so that Ctrl+N, which only sets
\* note_create_mode, always enters CreateNote with an empty pending name.
C22_NameEmptyOutsideCreateNote ==
    /\ ~note_create_mode => new_file_name = <<>>
    /\ (Waiting /\ Normal) =>
          LET r == Press(KeyCtrlN, AllOk)
          IN  ~r.panic /\ r.app.note_create_mode /\ r.app.new_file_name = <<>>

\* Reached: Ctrl+N has just entered CreateNote with an empty pending name,
\* after an earlier CreateNote session created the note "s" in a folder that
\* held nothing and made it the current file.
C22_Witness ==
    /\ last.mode = "Normal" /\ last.key = KeyCtrlN
    /\ note_create_mode /\ new_file_name = <<>>
    /\ current_file = << <<"s">> >>
    /\ DOMAIN disk = {<<"s">>}

KeyCtrlH == Ctrl("h")

\* C23 as claimed: in whichever mode is active, Ctrl+H inverts help_menu_open
\* and changes nothing else.
C23_HelpTogglesInEveryMode ==
    Waiting =>
        LET r == Press(KeyCtrlH, AllOk)
        IN  /\ ~r.panic
            /\ r.app = [App EXCEPT !.help_menu_open = ~help_menu_open]
            /\ r.disk = disk

\* C23: in Normal mode Ctrl+H inverts help_menu_open and changes nothing
\* else.  In CreateNote the key goes to the handler of the mode, which appends
\* "h" to the pending name, and in SelectFile it is ignored; in both the flag
\* keeps its value, as do the buffer, the cursor, the mode, the highlighted
\* index and the current file.
C23_HelpTogglesInNormalMode ==
    Waiting =>
        LET r == Press(KeyCtrlH, AllOk)
        IN  /\ ~r.panic
            /\ r.disk = disk
            /\ r.app = IF note_create_mode
                       THEN [App EXCEPT !.new_file_name = @ \o <<"h">>]
                       ELSE IF file_select_mode THEN App
                       ELSE [App EXCEPT !.help_menu_open = ~help_menu_open]

\* Reached: Ctrl+H has just closed the help menu in Normal mode, over an
\* edited buffer.
C23_Witness ==
    /\ last.mode = "Normal" /\ last.key = KeyCtrlH
    /\ Normal /\ ~help_menu_open
    /\ Len(text) > 1

\* Every key event of the model, with the Ctrl variants of RoutedKeys.
AllKeys == Keys \cup RoutedKeys

\* The state that differs from the current one only in help_menu_open.
HelpTwin == [App EXCEPT !.help_menu_open = ~help_menu_open]

\* The App without its help_menu_open field.
NoHelp(a) == [f \in DOMAIN a \ {"help_menu_open"} |-> a[f]]

\* C24: the help menu is a passthrough.  For every reachable state, the
\* state that differs from it only in help_menu_open, every key and every
\* outcome of the file-system calls, handle_key_event gives in both the same
\* buffer, cursor, mode, pending name, highlighted index, current file, exit
\* flag, folder and panic, and the two results differ in help_menu_open and in
\* nothing else.
C24_HelpIsPassthrough ==
    Waiting =>
        \A key \in AllKeys : \A io \in Outcomes(App, key) :
            LET r == Press(key, io)
                t == HandleKeyEvent(HelpTwin, disk, key, io)
            IN  /\ r.panic = t.panic
                /\ r.disk = t.disk
                /\ NoHelp(r.app) = NoHelp(t.app)
                /\ r.app.help_menu_open # t.app.help_menu_open

\* Reached: with the help menu open, a character key has just been inserted
\* in the buffer in Normal mode.
C24_Witness ==
    /\ help_menu_open
    /\ last.mode = "Normal" /\ last.key = Char("w")
    /\ cursor_x > 0 /\ text[cursor_y + 1][cursor_x] = "w"

====
